---- MODULE Spec2Model ----
(***************************************************************************)
(* Model of monitor-concurrent.py: the ConcurrentStreamMonitor sampler.    *)
(* One tick of monitor() is modelled sub-step by sub-step, so that a stop  *)
(* signal, a hanging query or a failing sub-step can fall anywhere in it.  *)
(* Time is in integer units: mono is elapsed real time, the wall clock is  *)
(* mono + skew and may be stepped back by the environment.                 *)
(***************************************************************************)
EXTENDS Integers, Sequences, FiniteSets, TLC

VARIABLES
    pc,             \* position of the main thread in main()/monitor()
    running,        \* self.running
    data_points,    \* self.data_points
    data_point,     \* the local data_point of collect_data / monitor
    interval,       \* self.interval (CLI -i)
    duration,       \* duration (CLI -d); 0 stands for None or 0, both falsy
    start_time,     \* start_time = time.time()
    mono,           \* elapsed real time
    skew,           \* wall clock minus elapsed real time
    hung,           \* an nvidia-smi subprocess was started and never returns
    exc,            \* the exception propagating out of the try body or the finally
    csv_file,       \* <prefix>_<ts>.csv
    json_file,      \* <prefix>_<ts>.json
    analysis_file,  \* <prefix>_<ts>_analysis.json
    ticksStarted,   \* history: number of collect_data calls begun
    lastSigPhase,   \* history: where the main thread was at the latest signal
    ticksAtSig,     \* history: ticksStarted at the latest signal
    flushStarts,    \* history: number of times the finally block was entered
    starts,         \* history: elapsed-time instant each tick started at
    works,          \* history: collection work of each finished tick
    degradedCount,  \* history: non-nominal sub-step outcomes so far
    ffmpeg_processes, \* argument of detect_nvenc_utilization (attribution harness)
    nvenc_util,     \* its result (attribution harness)
    json_doc,       \* the array json.dump wrote to the .json file
    analysis,       \* the dict analyze_concurrent_performance returned
    df,             \* analyzer: the monitoring CSV as pd.read_csv gives it
    output_tree,    \* analyzer: the artifact trees under output_dir
    nvenc_logs,     \* analyzer: the encoder logs under logs_dir
    now,            \* analyzer: wall clock of the analysing process
    analysis_results, \* analyzer: self.analysis_results
    grade,          \* analyzer: what _print_performance_grade computed
    reports         \* analyzer: the analysis_report_*.json files written so far

vars == <<pc, running, data_points, data_point, interval, duration, start_time,
          mono, skew, hung, exc, csv_file, json_file, analysis_file,
          ticksStarted, lastSigPhase, ticksAtSig, flushStarts, starts, works,
          degradedCount, ffmpeg_processes, nvenc_util, json_doc, analysis,
          df, output_tree, nvenc_logs, now, analysis_results, grade, reports>>

analyzerVars == <<df, output_tree, nvenc_logs, now, analysis_results, grade, reports>>

(***************************************************************************)
(* Bounds and input sets                                                   *)
(***************************************************************************)
MaxTicks == 2
MaxDegraded == 1
MaxPid == 3
MaxStreams == 2
MaxProcs == 3
\* runs of the analyzer on the same inputs
MaxRuns == 2
\* entries of an engine's artifact tree
MaxEntries == 2
\* tokens of an encoder log
MaxLogLen == 6

Intervals == {-1, 0, 1, 2}
Durations == {0, 1, 3}
WorkTimes == {1, 2}
ProcObservations ==
    {<<[pid |-> 3, input_streams |-> 1], [pid |-> 1, input_streams |-> 2],
       [pid |-> 2, input_streams |-> 1]>>}

Max(a, b) == IF a >= b THEN a ELSE b

(***************************************************************************)
(* detect_nvenc_utilization and its helpers                                *)
(***************************************************************************)
Proc == [pid : 1..MaxPid, input_streams : 0..MaxStreams]

Pids(ps) == {ps[i].pid : i \in DOMAIN ps}

ProcLists ==
    {ps \in UNION {[1..n -> Proc] : n \in 0..MaxProcs} :
        Cardinality(Pids(ps)) = Len(ps)}

\* bisect-right insertion: p goes after every element whose pid is <= p.pid
RECURSIVE InsertByPid(_, _)
InsertByPid(p, s) ==
    IF s = <<>> THEN <<p>>
    ELSE IF p.pid < Head(s).pid THEN <<p>> \o s
    ELSE <<Head(s)>> \o InsertByPid(p, Tail(s))

sorted_unsorted(ps) == ps

\* sorted(ffmpeg_processes, key=lambda x: x['pid']) -- a stable sort
RECURSIVE sorted_by_pid(_)
sorted_by_pid(ps) ==
    IF ps = <<>> THEN <<>>
    ELSE InsertByPid(ps[Len(ps)], sorted_by_pid(SubSeq(ps, 1, Len(ps) - 1)))

\* sum(p['input_streams'] for p in sorted_processes)
RECURSIVE sum_input_streams(_)
sum_input_streams(ps) ==
    IF ps = <<>> THEN 0
    ELSE Head(ps).input_streams + sum_input_streams(Tail(ps))

NoLoad ==
    [nvenc1_estimated_load |-> 0, nvenc2_estimated_load |-> 0,
     total_concurrent_streams |-> 0]

detect_named_only(procs) ==
    IF procs = <<>> THEN NoLoad
    ELSE LET sorted_processes == sorted_by_pid(procs)
             n1 == sorted_processes[1].input_streams
             n2 == IF Len(sorted_processes) >= 2
                   THEN sorted_processes[2].input_streams ELSE 0
         IN [nvenc1_estimated_load |-> n1, nvenc2_estimated_load |-> n2,
             total_concurrent_streams |-> n1 + n2]

detect_nvenc_utilization(procs) ==
    IF procs = <<>> THEN NoLoad
    ELSE LET sorted_processes == sorted_by_pid(procs)
             total_streams == sum_input_streams(sorted_processes)
         IN IF Len(sorted_processes) = 1 THEN
                [nvenc1_estimated_load |-> sorted_processes[1].input_streams,
                 nvenc2_estimated_load |-> 0,
                 total_concurrent_streams |-> total_streams]
            ELSE IF Len(sorted_processes) >= 2 THEN
                [nvenc1_estimated_load |-> sorted_processes[1].input_streams,
                 nvenc2_estimated_load |-> sorted_processes[2].input_streams,
                 total_concurrent_streams |-> total_streams]
            ELSE NoLoad

(***************************************************************************)
(* The Sample (data_point dict).  A field family that a sub-step did not   *)
(* write is "absent"; steps records which sub-steps of collect_data have   *)
(* run on the dict, faults which of them met a non-nominal outcome.        *)
(***************************************************************************)
SubSteps == {"gpu", "enc", "compute", "ffmpeg", "system", "hls"}

TickPcs == {"collect", "gpu", "enc", "compute", "ffmpeg", "system", "hls",
            "append", "print", "durcheck"}

FlushPcs == {"finally", "save_csv", "save_json", "save_analysis"}

wall == mono + skew

\* one field of nvidia-smi's csv line: a number, or the text [N/A]
Reading(v) == [na |-> FALSE, v |-> v]
NotAvailable == [na |-> TRUE, v |-> 0]

\* the utilization.gpu and temperature.gpu fields nvidia-smi printed
NoReport == [gpu_utilization |-> NotAvailable, temperature_c |-> NotAvailable]

driver_report(outcome) ==
    IF outcome = "ok"
    THEN [gpu_utilization |-> Reading(60), temperature_c |-> Reading(70)]
    ELSE IF outcome = "idle"
    THEN [gpu_utilization |-> Reading(0), temperature_c |-> Reading(40)]
    ELSE NoReport

\* float(values[5].strip()) if values[5].strip() != '[N/A]' else 0
parse_counter(field) == IF field.na THEN 0 ELSE field.v

NoGpuInfo == [present |-> FALSE, gpu_utilization |-> 0, temperature_c |-> 0,
              reported |-> NoReport]

\* data_point = {'timestamp': timestamp.isoformat(), 'unix_timestamp': ...}
new_data_point(t) ==
    [timestamp |-> [fmt |-> "iso", at |-> t],
     unix_timestamp |-> t,
     gpu |-> "absent",
     gpu_utilization |-> 0,
     temperature_c |-> 0,
     reported |-> NoReport,
     memory_percent |-> "absent",
     enc |-> "absent",
     compute_processes |-> "absent",
     ffmpeg_processes |-> <<>>,
     total_ffmpeg_processes |-> 0,
     nvenc |-> NoLoad,
     system |-> "absent",
     hls |-> "absent",
     steps |-> {},
     faults |-> {}]

NoSample == new_data_point(0)

Ran(dp, step, outcome) ==
    [dp EXCEPT !.steps = @ \cup {step},
               !.faults = IF outcome = "ok" THEN @ ELSE @ \cup {step}]

Returned(v) == [raised |-> FALSE, value |-> v]
Raised == [raised |-> TRUE, value |-> "exception"]

\* the dict built from nvidia-smi's line; reported keeps what the driver
\* printed, which the dict itself does not
gpu_info_of(report) ==
    [present |-> TRUE,
     gpu_utilization |-> parse_counter(report.gpu_utilization),
     temperature_c |-> parse_counter(report.temperature_c),
     reported |-> report]

get_gpu_info_propagates(outcome) ==
    IF outcome = "fail" THEN Raised
    ELSE Returned(gpu_info_of(driver_report(outcome)))

\* try: subprocess.run(..., check=True); parse  except Exception: return None
get_gpu_info(outcome) ==
    IF outcome = "fail" THEN Returned(NoGpuInfo)
    ELSE Returned(gpu_info_of(driver_report(outcome)))

\* returncode != 0, empty output or any exception: the all-zero dict
get_nvenc_encoder_stats(outcome) ==
    IF outcome = "ok" THEN Returned("val") ELSE Returned("zero")

\* except Exception: return []
get_compute_processes(outcome) ==
    IF outcome = "ok" THEN Returned("list") ELSE Returned("empty")

\* the outer except prints and returns the list built so far
get_ffmpeg_processes(outcome, observed) ==
    IF outcome = "ok" THEN Returned(observed) ELSE Returned(<<>>)

\* except Exception: return {}
get_system_info(outcome) ==
    IF outcome = "ok" THEN Returned("val") ELSE Returned("absent")

\* a missing output directory returns three keys, an exception four zeros
get_hls_output_stats(outcome) ==
    IF outcome = "ok" THEN Returned("full")
    ELSE IF outcome = "nodir" THEN Returned("noavg")
    ELSE Returned("zero")

\* gpu_info = self.get_gpu_info(); if gpu_info: data_point.update(gpu_info)
\* gpu_info carries its own 'timestamp' and 'memory_percent' keys
update_gpu(dp, gpu_info) ==
    IF ~gpu_info.present THEN dp
    ELSE [dp EXCEPT !.gpu = "val",
                    !.gpu_utilization = gpu_info.gpu_utilization,
                    !.temperature_c = gpu_info.temperature_c,
                    !.reported = gpu_info.reported,
                    !.timestamp = [fmt |-> "smi", at |-> wall],
                    !.memory_percent = "gpu"]

\* data_point.update(system_info): system_info carries 'memory_percent' too
update_system(dp, system_info) ==
    IF system_info = "absent" THEN dp
    ELSE [dp EXCEPT !.system = system_info, !.memory_percent = "host"]

(***************************************************************************)
(* Persistence                                                             *)
(***************************************************************************)
NoFile == [state |-> "none", rows |-> 0]

\* the scalar keys of a flattened point, by family; the derived keys and the
\* keys every Sample has are "base"
flat_keys(point) ==
    {"base"}
    \cup (IF point.gpu = "absent" THEN {} ELSE {"gpu"})
    \cup (IF point.memory_percent = "absent" THEN {} ELSE {"memory_percent"})
    \cup (IF point.system = "absent" THEN {} ELSE {"system"})
    \cup (IF point.hls \in {"full", "zero"} THEN {"avg_segments_per_playlist"} ELSE {})

\* csv.DictWriter(f, fieldnames=flattened_data[0].keys()): extrasaction is
\* 'raise', so writerows stops with ValueError at the first row that has a key
\* the first row lacks; the rows before it are already written
save_data_csv(points) ==
    IF points = <<>> THEN [raised |-> FALSE, file |-> NoFile]
    ELSE LET fieldnames == flat_keys(points[1])
             bad == {i \in DOMAIN points : ~(flat_keys(points[i]) \subseteq fieldnames)}
         IN IF bad = {}
            THEN [raised |-> FALSE,
                  file |-> [state |-> "complete", rows |-> Len(points)]]
            ELSE [raised |-> TRUE,
                  file |-> [state |-> "partial",
                            rows |-> (CHOOSE i \in bad : \A j \in bad : i <= j) - 1]]

\* json.dump(self.data_points, f, indent=2, default=str)
save_data_json(points) == [state |-> "complete", rows |-> Len(points)]

\* the keys of one Sample as json.dump writes them: every key of the dict
json_object(point) ==
    [timestamp |-> point.timestamp,
     unix_timestamp |-> point.unix_timestamp,
     has_gpu |-> point.gpu # "absent",
     gpu_utilization |-> point.gpu_utilization,
     temperature_c |-> point.temperature_c,
     memory_percent |-> point.memory_percent,
     total_concurrent_streams |-> point.nvenc.total_concurrent_streams]

json_array(points) == [i \in DOMAIN points |-> json_object(points[i])]

RECURSIVE SeqSum(_)
SeqSum(xs) == IF xs = <<>> THEN 0 ELSE Head(xs) + SeqSum(Tail(xs))

RECURSIVE SeqMax(_)
SeqMax(xs) ==
    IF Len(xs) = 1 THEN xs[1] ELSE Max(Head(xs), SeqMax(Tail(xs)))

\* p.get(key, 0): the Sample's value, 0 when get_gpu_info returned None
get_or_zero(point, key) ==
    IF point.gpu = "absent" THEN 0
    ELSE IF key = "gpu_utilization" THEN point.gpu_utilization
    ELSE point.temperature_c

NoAnalysis ==
    [keys |-> {},
     gpu_utilization |-> [sum |-> 0, len |-> 0, max |-> 0],
     thermal_power |-> [sum_temp_c |-> 0, len |-> 0, max_temp_c |-> 0],
     concurrent_streams |-> [max_total_streams |-> 0]]

\* an average is kept as its sum and its divisor
analyze_concurrent_performance(points) ==
    IF points = <<>> THEN NoAnalysis
    ELSE LET gpu_utils == [i \in DOMAIN points |-> get_or_zero(points[i], "gpu_utilization")]
             temps == [i \in DOMAIN points |-> get_or_zero(points[i], "temperature_c")]
             stream_counts == [i \in DOMAIN points |->
                                 points[i].nvenc.total_concurrent_streams]
         IN [keys |-> {"gpu_utilization", "memory_usage", "concurrent_streams",
                       "thermal_power", "output_generation"},
             gpu_utilization |-> [sum |-> SeqSum(gpu_utils), len |-> Len(gpu_utils),
                                  max |-> SeqMax(gpu_utils)],
             thermal_power |-> [sum_temp_c |-> SeqSum(temps), len |-> Len(temps),
                                max_temp_c |-> SeqMax(temps)],
             concurrent_streams |-> [max_total_streams |-> SeqMax(stream_counts)]]

\* analysis = self.analyze_concurrent_performance(); if not analysis: return
save_analysis(points) ==
    IF points = <<>> THEN NoFile
    ELSE [state |-> "complete", rows |-> Len(points)]

(***************************************************************************)
(* The analyzer's inputs and results (analyze-results.py).  A number is a  *)
(* fraction num/den, so that a mean or a rate is exact, or NaN.            *)
(***************************************************************************)
Num(n) == [nan |-> FALSE, num |-> n, den |-> 1]
Frac(n, d) == [nan |-> FALSE, num |-> n, den |-> d]
NaN == [nan |-> TRUE, num |-> 0, den |-> 1]

\* a >= b and a <= b as Python compares floats: False when either is NaN
Ge(a, b) == ~a.nan /\ ~b.nan /\ a.num * b.den >= b.num * a.den
Le(a, b) == ~a.nan /\ ~b.nan /\ a.num * b.den <= b.num * a.den

\* a column of the DataFrame: missing from the file, or one cell per row
NoColumn == [present |-> FALSE, cells |-> <<>>]
Column(cells) == [present |-> TRUE, cells |-> cells]

\* no concurrent_monitor*.csv under logs_dir
NoCsv ==
    [found |-> FALSE, gpu_utilization |-> NoColumn, temperature_c |-> NoColumn,
     total_concurrent_streams |-> NoColumn]

NoOutputTree == [nvenc1 |-> <<>>, nvenc2 |-> <<>>]

NoLog == [found |-> FALSE, content |-> <<>>]
NoLogs == [nvenc1 |-> NoLog, nvenc2 |-> NoLog]

NoEngineQuality ==
    [successful_streams |-> 0, failed_streams |-> 0, total_size_mb |-> 0,
     success_rate |-> Num(0)]

NoGpuPerformance ==
    [keys |-> {}, gpu_utilization |-> [avg |-> Num(0)],
     thermal |-> [max_temp |-> Num(0)],
     concurrent_streams |-> [max_total |-> Num(0)]]

NoEngineLog == [keys |-> {}, dropped_frames |-> 0]

\* self.analysis_results = {} in __init__
NoResults ==
    [keys |-> {},
     test_timestamp |-> 0,
     gpu_performance |-> NoGpuPerformance,
     output_quality |-> [nvenc1 |-> NoEngineQuality, nvenc2 |-> NoEngineQuality],
     ffmpeg_analysis |-> [nvenc1 |-> NoEngineLog, nvenc2 |-> NoEngineLog]]

NoGrade == [printed |-> FALSE, score |-> 0, max_score |-> 0, grade |-> "none"]

\* the analyzer has not been started
AnalyzerIdle ==
    /\ df = NoCsv
    /\ output_tree = NoOutputTree
    /\ nvenc_logs = NoLogs
    /\ now = 0
    /\ analysis_results = NoResults
    /\ grade = NoGrade
    /\ reports = <<>>

(***************************************************************************)
(* analyze_gpu_performance                                                 *)
(***************************************************************************)
\* the cells of a column that hold a number: pandas skips NaN
RECURSIVE NonNaN(_)
NonNaN(cells) ==
    IF cells = <<>> THEN <<>>
    ELSE IF Head(cells).na THEN NonNaN(Tail(cells))
    ELSE <<Head(cells).v>> \o NonNaN(Tail(cells))

\* df[col].mean()
col_mean(column) ==
    LET xs == NonNaN(column.cells)
    IN IF xs = <<>> THEN NaN ELSE Frac(SeqSum(xs), Len(xs))

\* df[col].max()
col_max(column) ==
    LET xs == NonNaN(column.cells)
    IN IF xs = <<>> THEN NaN ELSE Num(SeqMax(xs))

\* a missing file and an exception from read_csv both return {}; a column
\* the file lacks gives 0
analyze_gpu_performance(csv) ==
    IF ~csv.found THEN NoGpuPerformance
    ELSE [keys |-> {"gpu_utilization", "memory_usage", "thermal"}
                   \cup (IF csv.total_concurrent_streams.present
                         THEN {"concurrent_streams"} ELSE {}),
          gpu_utilization |->
              [avg |-> IF csv.gpu_utilization.present
                       THEN col_mean(csv.gpu_utilization) ELSE Num(0)],
          thermal |->
              [max_temp |-> IF csv.temperature_c.present
                            THEN col_max(csv.temperature_c) ELSE Num(0)],
          concurrent_streams |->
              [max_total |-> IF csv.total_concurrent_streams.present
                             THEN col_max(csv.total_concurrent_streams)
                             ELSE Num(0)]]

(***************************************************************************)
(* analyze_output_quality.  An engine's tree is a list of entries; an      *)
(* entry stands for count directory entries of the same kind, playlist     *)
(* state and total file size (bytes, summed over rglob('*')).              *)
(***************************************************************************)
\* is_dir() and name.startswith('stream')
is_stream_dir(entry) == entry.kind = "stream_dir"

\* playlist_file.exists() and playlist_file.stat().st_size > 0
playlist_ok(entry) == entry.playlist = "ok"

\* the bytes an entry adds to total_size_mb (kept in bytes, not divided by
\* 1024 * 1024): dir_size is added in the successful branch only
dir_size_added(entry) ==
    IF is_stream_dir(entry) /\ playlist_ok(entry) THEN entry.bytes * entry.count
    ELSE 0

RECURSIVE count_streams(_, _)
count_streams(entries, ok) ==
    IF entries = <<>> THEN 0
    ELSE (IF is_stream_dir(Head(entries)) /\ (playlist_ok(Head(entries)) <=> ok)
          THEN Head(entries).count ELSE 0)
         + count_streams(Tail(entries), ok)

RECURSIVE sum_dir_sizes(_)
sum_dir_sizes(entries) ==
    IF entries = <<>> THEN 0
    ELSE dir_size_added(Head(entries)) + sum_dir_sizes(Tail(entries))

success_rate_unguarded(successful, failed) ==
    Frac(successful * 100, successful + failed)

\* (successful / total) * 100 if total > 0 else 0
success_rate(successful, failed) ==
    IF successful + failed > 0
    THEN Frac(successful * 100, successful + failed)
    ELSE Num(0)

analyze_engine(entries) ==
    LET successful == count_streams(entries, TRUE)
        failed == count_streams(entries, FALSE)
    IN [successful_streams |-> successful,
        failed_streams |-> failed,
        total_size_mb |-> sum_dir_sizes(entries),
        success_rate |-> success_rate(successful, failed)]

analyze_output_quality(tree) ==
    [nvenc1 |-> analyze_engine(tree.nvenc1),
     nvenc2 |-> analyze_engine(tree.nvenc2)]

(***************************************************************************)
(* analyze_ffmpeg_logs.  A log's content is a list of tokens: the text     *)
(* drop=, a run of whitespace, a maximal run of digits (with its value),   *)
(* or other text.                                                          *)
(***************************************************************************)
TokDrop == [k |-> "drop=", v |-> 0]
TokSpace == [k |-> "space", v |-> 0]
TokText == [k |-> "text", v |-> 0]
TokDigits(n) == [k |-> "digits", v |-> n]

\* the index after the whitespace run that starts at i: \s*
RECURSIVE skip_space(_, _)
skip_space(content, i) ==
    IF i <= Len(content) /\ content[i].k = "space"
    THEN skip_space(content, i + 1) ELSE i

\* re.findall(r'drop=\s*([0-9]+)', log_content) from index i on: the groups
\* of the non-overlapping matches, left to right
RECURSIVE findall_drop(_, _)
findall_drop(content, i) ==
    IF i > Len(content) THEN <<>>
    ELSE IF content[i].k = "drop="
    THEN LET j == skip_space(content, i + 1)
         IN IF j <= Len(content) /\ content[j].k = "digits"
            THEN <<content[j].v>> \o findall_drop(content, j + 1)
            ELSE findall_drop(content, i + 1)
    ELSE findall_drop(content, i + 1)

count_dropped_frames_last(log_content) ==
    LET matches == findall_drop(log_content, 1)
    IN IF matches # <<>> THEN matches[Len(matches)] ELSE 0

\* return max(int(x) for x in matches) if matches else 0
count_dropped_frames(log_content) ==
    LET matches == findall_drop(log_content, 1)
    IN IF matches # <<>> THEN SeqMax(matches) ELSE 0

\* a log that is missing leaves the engine's dict empty
analyze_log(log) ==
    IF ~log.found THEN NoEngineLog
    ELSE [keys |-> {"log_size_kb", "has_errors", "encoding_speed",
                    "dropped_frames", "warnings"},
          dropped_frames |-> count_dropped_frames(log.content)]

analyze_ffmpeg_logs(logs) ==
    [nvenc1 |-> analyze_log(logs.nvenc1), nvenc2 |-> analyze_log(logs.nvenc2)]

(***************************************************************************)
(* _print_performance_grade                                                *)
(***************************************************************************)
utilization_points(gpu_util) ==
    IF Ge(gpu_util, Num(80)) THEN 25
    ELSE IF Ge(gpu_util, Num(60)) THEN 20
    ELSE IF Ge(gpu_util, Num(40)) THEN 15
    ELSE IF Ge(gpu_util, Num(20)) THEN 10
    ELSE 0

success_points(avg_success) ==
    IF Ge(avg_success, Num(95)) THEN 35
    ELSE IF Ge(avg_success, Num(90)) THEN 30
    ELSE IF Ge(avg_success, Num(80)) THEN 25
    ELSE IF Ge(avg_success, Num(70)) THEN 20
    ELSE 0

streams_points(max_streams) ==
    IF Ge(max_streams, Num(100)) THEN 25
    ELSE IF Ge(max_streams, Num(75)) THEN 20
    ELSE IF Ge(max_streams, Num(50)) THEN 15
    ELSE IF Ge(max_streams, Num(25)) THEN 10
    ELSE 0

thermal_points_strict(max_temp) ==
    IF Le(max_temp, Num(74)) THEN 15
    ELSE IF Le(max_temp, Num(79)) THEN 12
    ELSE IF Le(max_temp, Num(84)) THEN 8
    ELSE 0

thermal_points(max_temp) ==
    IF Le(max_temp, Num(75)) THEN 15
    ELSE IF Le(max_temp, Num(80)) THEN 12
    ELSE IF Le(max_temp, Num(85)) THEN 8
    ELSE 0

\* (nvenc1_success + nvenc2_success) / 2
mean_of_two(a, b) == Frac(a.num * b.den + b.num * a.den, 2 * a.den * b.den)

letter_grade(percentage) ==
    IF Ge(percentage, Num(90)) THEN "A+ (Excellent)"
    ELSE IF Ge(percentage, Num(80)) THEN "A (Very Good)"
    ELSE IF Ge(percentage, Num(70)) THEN "B+ (Good)"
    ELSE IF Ge(percentage, Num(60)) THEN "B (Fair)"
    ELSE IF Ge(percentage, Num(50)) THEN "C (Needs Improvement)"
    ELSE "D (Poor)"

\* .get(section, {}).get(key, default) on the gpu_performance dict
section_get(gpu_performance, section, value, default) ==
    IF section \in gpu_performance.keys THEN value ELSE Num(default)

print_performance_grade(results) ==
    LET gp == results.gpu_performance
        oq == results.output_quality
        has_gpu == "gpu_performance" \in results.keys
        has_out == "output_quality" \in results.keys
        gpu_util == section_get(gp, "gpu_utilization", gp.gpu_utilization.avg, 0)
        avg_success == mean_of_two(oq.nvenc1.success_rate, oq.nvenc2.success_rate)
        max_streams == section_get(gp, "concurrent_streams",
                                   gp.concurrent_streams.max_total, 0)
        max_temp == section_get(gp, "thermal", gp.thermal.max_temp, 100)
        score == (IF has_gpu THEN utilization_points(gpu_util) ELSE 0)
                 + (IF has_out THEN success_points(avg_success) ELSE 0)
                 + (IF has_gpu THEN streams_points(max_streams) ELSE 0)
                 + (IF has_gpu THEN thermal_points(max_temp) ELSE 0)
        max_score == (IF has_gpu THEN 25 ELSE 0) + (IF has_out THEN 35 ELSE 0)
                     + (IF has_gpu THEN 25 ELSE 0) + (IF has_gpu THEN 15 ELSE 0)
    IN IF max_score > 0
       THEN [printed |-> TRUE, score |-> score, max_score |-> max_score,
             grade |-> letter_grade(Frac(score * 100, max_score))]
       ELSE [printed |-> FALSE, score |-> score, max_score |-> max_score,
             grade |-> "none"]

(***************************************************************************)
(* Signals                                                                 *)
(***************************************************************************)
Phase ==
    IF pc = "constructed" THEN "pre"
    ELSE IF pc = "loop" /\ ticksStarted = 0 THEN "armed"
    ELSE IF pc \in TickPcs THEN "tick"
    ELSE IF pc \in {"sleep", "loop"} THEN "sleep"
    ELSE "flush"

\* the default SIGINT disposition: KeyboardInterrupt raised in the main thread
signal_handler_raises ==
    IF pc \in TickPcs \cup {"sleep", "loop"}
    THEN pc' = "finally" /\ UNCHANGED <<running, exc>>
    ELSE running' = FALSE /\ UNCHANGED <<pc, exc>>

\* _signal_handler: print; self.running = False
signal_handler ==
    running' = FALSE /\ UNCHANGED <<pc, exc>>

\* SIGINT or SIGTERM delivered to the process; the handler runs in the main
\* thread between two of its steps, also while it waits in a system call
Signal ==
    /\ pc # "done"
    /\ signal_handler
    /\ lastSigPhase' = Phase
    /\ ticksAtSig' = ticksStarted
    /\ UNCHANGED <<data_points, data_point, interval, duration, start_time,
                   mono, skew, hung, csv_file, json_file, analysis_file,
                   ticksStarted, flushStarts, starts, works, degradedCount,
                   ffmpeg_processes, nvenc_util, json_doc, analysis,
                   analyzerVars>>

(***************************************************************************)
(* main() and monitor()                                                    *)
(***************************************************************************)
harnessVars == <<ffmpeg_processes, nvenc_util>>

history == <<ticksStarted, lastSigPhase, ticksAtSig, flushStarts, starts, works>>

\* an exception leaving the try body at 460: no except clause matches anything
\* but KeyboardInterrupt, the finally block runs and the exception goes on
RaiseInTry(e) == pc' = "finally" /\ exc' = e

Degrades(outcome) ==
    /\ outcome # "ok" => degradedCount < MaxDegraded
    /\ degradedCount' = IF outcome = "ok" THEN degradedCount ELSE degradedCount + 1

\* 457-458: self.running = True; start_time = time.time()
MonitorStart ==
    /\ pc = "constructed"
    /\ running' = TRUE
    /\ start_time' = wall
    /\ pc' = "loop"
    /\ UNCHANGED <<data_points, data_point, interval, duration, mono, skew, hung,
                   exc, csv_file, json_file, analysis_file, history,
                   degradedCount, harnessVars, json_doc, analysis,
                   analyzerVars>>

\* 461: while self.running -- a true test enters the loop body: a tick starts
LoopTest ==
    /\ pc = "loop"
    /\ running => ticksStarted < MaxTicks
    /\ pc' = IF running THEN "collect" ELSE "finally"
    /\ ticksStarted' = IF running THEN ticksStarted + 1 ELSE ticksStarted
    /\ UNCHANGED <<running, data_points, data_point, interval, duration,
                   start_time, mono, skew, hung, exc, csv_file, json_file,
                   analysis_file, lastSigPhase, ticksAtSig, flushStarts, starts,
                   works, degradedCount, harnessVars, json_doc, analysis,
                   analyzerVars>>

\* 236-241: timestamp = datetime.now(); the new dict
CollectStart ==
    /\ pc = "collect"
    /\ data_point' = new_data_point(wall)
    /\ starts' = Append(starts, mono)
    /\ pc' = "gpu"
    /\ UNCHANGED <<running, data_points, interval, duration, start_time, mono,
                   skew, hung, exc, csv_file, json_file, analysis_file,
                   ticksStarted, lastSigPhase, ticksAtSig, flushStarts, works,
                   degradedCount, harnessVars, json_doc, analysis,
                   analyzerVars>>

\* 244-246; subprocess.run is given no timeout
GetGpuInfo ==
    /\ pc = "gpu" /\ ~hung
    /\ \E outcome \in {"ok", "idle", "na", "fail", "hang"} :
         IF outcome = "hang"
         THEN /\ hung' = TRUE
              /\ UNCHANGED <<pc, exc, data_point, degradedCount>>
         ELSE /\ Degrades(outcome)
              /\ hung' = hung
              /\ LET gpu_info == get_gpu_info(outcome)
                 IN IF gpu_info.raised
                    THEN RaiseInTry("gpu") /\ UNCHANGED data_point
                    ELSE /\ data_point' =
                              Ran(update_gpu(data_point, gpu_info.value), "gpu",
                                  IF outcome = "fail" THEN "fail" ELSE "ok")
                         /\ pc' = "enc"
                         /\ exc' = exc
    /\ UNCHANGED <<running, data_points, interval, duration, start_time, mono,
                   skew, csv_file, json_file, analysis_file, history, harnessVars, json_doc, analysis,
                   analyzerVars>>

\* 249-250; subprocess.run is given no timeout
GetNvencEncoderStats ==
    /\ pc = "enc" /\ ~hung
    /\ \E outcome \in {"ok", "fail", "hang"} :
         IF outcome = "hang"
         THEN /\ hung' = TRUE
              /\ UNCHANGED <<pc, exc, data_point, degradedCount>>
         ELSE /\ Degrades(outcome)
              /\ hung' = hung
              /\ LET nvenc_stats == get_nvenc_encoder_stats(outcome)
                 IN IF nvenc_stats.raised
                    THEN RaiseInTry("enc") /\ UNCHANGED data_point
                    ELSE /\ data_point' =
                              Ran([data_point EXCEPT !.enc = nvenc_stats.value],
                                  "enc", outcome)
                         /\ pc' = "compute"
                         /\ exc' = exc
    /\ UNCHANGED <<running, data_points, interval, duration, start_time, mono,
                   skew, csv_file, json_file, analysis_file, history, harnessVars, json_doc, analysis,
                   analyzerVars>>

\* 253, 256, 259; subprocess.run is given no timeout
GetComputeProcesses ==
    /\ pc = "compute" /\ ~hung
    /\ \E outcome \in {"ok", "fail", "hang"} :
         IF outcome = "hang"
         THEN /\ hung' = TRUE
              /\ UNCHANGED <<pc, exc, data_point, degradedCount>>
         ELSE /\ Degrades(outcome)
              /\ hung' = hung
              /\ LET compute_processes == get_compute_processes(outcome)
                 IN IF compute_processes.raised
                    THEN RaiseInTry("compute") /\ UNCHANGED data_point
                    ELSE /\ data_point' =
                              Ran([data_point EXCEPT
                                     !.compute_processes = compute_processes.value],
                                  "compute", outcome)
                         /\ pc' = "ffmpeg"
                         /\ exc' = exc
    /\ UNCHANGED <<running, data_points, interval, duration, start_time, mono,
                   skew, csv_file, json_file, analysis_file, history, harnessVars, json_doc, analysis,
                   analyzerVars>>

\* 254, 257-258, 262-263: the process table, then the attribution
GetFfmpegProcesses ==
    /\ pc = "ffmpeg"
    /\ \E outcome \in {"ok", "fail"}, observed \in ProcObservations :
         /\ outcome = "fail" => observed = <<>>
         /\ Degrades(outcome)
         /\ LET procs == get_ffmpeg_processes(outcome, observed)
            IN IF procs.raised
               THEN RaiseInTry("ffmpeg") /\ UNCHANGED data_point
               ELSE /\ data_point' =
                         Ran([data_point EXCEPT
                                !.ffmpeg_processes = procs.value,
                                !.total_ffmpeg_processes = Len(procs.value),
                                !.nvenc = detect_nvenc_utilization(procs.value)],
                             "ffmpeg", outcome)
                    /\ pc' = "system"
                    /\ exc' = exc
    /\ UNCHANGED <<running, data_points, interval, duration, start_time, mono,
                   skew, hung, csv_file, json_file, analysis_file, history,
                   harnessVars, json_doc, analysis,
                   analyzerVars>>

\* 266-267
GetSystemInfo ==
    /\ pc = "system"
    /\ \E outcome \in {"ok", "fail"} :
         /\ Degrades(outcome)
         /\ LET system_info == get_system_info(outcome)
            IN IF system_info.raised
               THEN RaiseInTry("system") /\ UNCHANGED data_point
               ELSE /\ data_point' =
                         Ran(update_system(data_point, system_info.value),
                             "system", outcome)
                    /\ pc' = "hls"
                    /\ exc' = exc
    /\ UNCHANGED <<running, data_points, interval, duration, start_time, mono,
                   skew, hung, csv_file, json_file, analysis_file, history,
                   harnessVars, json_doc, analysis,
                   analyzerVars>>

\* 270-273: the last sub-step; collect_data returns, having taken work time
GetHlsOutputStats ==
    /\ pc = "hls"
    /\ \E outcome \in {"ok", "nodir", "fail"}, work \in WorkTimes :
         /\ Degrades(outcome)
         /\ mono' = mono + work
         /\ LET hls_stats == get_hls_output_stats(outcome)
            IN IF hls_stats.raised
               THEN RaiseInTry("hls") /\ UNCHANGED <<data_point, works>>
               ELSE /\ data_point' =
                         Ran([data_point EXCEPT !.hls = hls_stats.value],
                             "hls", outcome)
                    /\ works' = Append(works, work)
                    /\ pc' = "append"
                    /\ exc' = exc
    /\ UNCHANGED <<running, data_points, interval, duration, start_time, skew,
                   hung, csv_file, json_file, analysis_file, ticksStarted,
                   lastSigPhase, ticksAtSig, flushStarts, starts, harnessVars, json_doc, analysis,
                   analyzerVars>>

\* 463: self.data_points.append(data_point)
AppendSample ==
    /\ pc = "append"
    /\ data_points' = Append(data_points, data_point)
    /\ pc' = "print"
    /\ UNCHANGED <<running, data_point, interval, duration, start_time, mono,
                   skew, hung, exc, csv_file, json_file, analysis_file, history,
                   degradedCount, harnessVars, json_doc, analysis,
                   analyzerVars>>

\* a status print that stores the defaults it shows into the dict, which is
\* the object the buffer's last element refers to
PrintRealtimeStatusStoresDefaults ==
    /\ pc = "print"
    /\ pc' = "durcheck"
    /\ data_points' = [data_points EXCEPT ![Len(data_points)].hls = "printed"]
    /\ UNCHANGED <<running, data_point, interval, duration,
                   start_time, mono, skew, hung, exc, csv_file, json_file,
                   analysis_file, history, degradedCount, harnessVars, json_doc,
                   analysis, analyzerVars>>

\* 466: print_realtime_status reads data_point with defaults and prints
PrintRealtimeStatus ==
    /\ pc = "print"
    /\ pc' = "durcheck"
    /\ UNCHANGED <<running, data_points, data_point, interval, duration,
                   start_time, mono, skew, hung, exc, csv_file, json_file,
                   analysis_file, history, degradedCount, harnessVars, json_doc, analysis,
                   analyzerVars>>

\* the elapsed-time test without the truth test of duration
DurationCheckNoTruthTest ==
    /\ pc = "durcheck"
    /\ pc' = IF wall - start_time >= duration THEN "finally" ELSE "sleep"
    /\ UNCHANGED <<running, data_points, data_point, interval, duration,
                   start_time, mono, skew, hung, exc, csv_file, json_file,
                   analysis_file, history, degradedCount, harnessVars, json_doc,
                   analysis, analyzerVars>>

\* 469-471: if duration and (time.time() - start_time) >= duration: break
DurationCheck ==
    /\ pc = "durcheck"
    /\ pc' = IF duration # 0 /\ wall - start_time >= duration
             THEN "finally" ELSE "sleep"
    /\ UNCHANGED <<running, data_points, data_point, interval, duration,
                   start_time, mono, skew, hung, exc, csv_file, json_file,
                   analysis_file, history, degradedCount, harnessVars, json_doc, analysis,
                   analyzerVars>>

\* 473: time.sleep(self.interval); a negative length raises ValueError, a
\* signal handled during the sleep does not shorten it
Sleep ==
    /\ pc = "sleep"
    /\ IF interval < 0
       THEN RaiseInTry("sleep") /\ mono' = mono
       ELSE pc' = "loop" /\ mono' = mono + interval /\ exc' = exc
    /\ UNCHANGED <<running, data_points, data_point, interval, duration,
                   start_time, skew, hung, csv_file, json_file, analysis_file,
                   history, degradedCount, harnessVars, json_doc, analysis,
                   analyzerVars>>

\* the wall clock is set back (an NTP step, an operator) while the loop sleeps
WallClockStepsBack ==
    /\ pc = "sleep"
    /\ skew = 0
    /\ skew' = -2
    /\ UNCHANGED <<pc, running, data_points, data_point, interval, duration,
                   start_time, mono, hung, exc, csv_file, json_file,
                   analysis_file, history, degradedCount, harnessVars, json_doc, analysis,
                   analyzerVars>>

\* 477-480: finally
Finally ==
    /\ pc = "finally"
    /\ flushStarts' = flushStarts + 1
    /\ pc' = "save_csv"
    /\ UNCHANGED <<running, data_points, data_point, interval, duration,
                   start_time, mono, skew, hung, exc, csv_file, json_file,
                   analysis_file, ticksStarted, lastSigPhase, ticksAtSig, starts,
                   works, degradedCount, harnessVars, json_doc, analysis,
                   analyzerVars>>

\* 481: an exception here leaves the finally block and monitor()
SaveDataCsv ==
    /\ pc = "save_csv"
    /\ LET saved == save_data_csv(data_points)
       IN /\ csv_file' = saved.file
          /\ IF saved.raised
             THEN pc' = "done" /\ exc' = "csv"
             ELSE pc' = "save_json" /\ exc' = exc
    /\ UNCHANGED <<running, data_points, data_point, interval, duration,
                   start_time, mono, skew, hung, json_file, analysis_file,
                   history, degradedCount, harnessVars, json_doc, analysis,
                   analyzerVars>>

\* 482
SaveDataJson ==
    /\ pc = "save_json"
    /\ json_file' = save_data_json(data_points)
    /\ json_doc' = json_array(data_points)
    /\ pc' = "save_analysis"
    /\ UNCHANGED <<running, data_points, data_point, interval, duration,
                   start_time, mono, skew, hung, exc, csv_file, analysis_file,
                   history, degradedCount, harnessVars, analysis, analyzerVars>>

SaveAnalysisResumes ==
    /\ pc = "save_analysis"
    /\ analysis_file' = save_analysis(data_points)
    /\ analysis' = analyze_concurrent_performance(data_points)
    /\ pc' = "loop"
    /\ UNCHANGED <<running, data_points, data_point, interval, duration,
                   start_time, mono, skew, hung, exc, csv_file, json_file,
                   history, degradedCount, harnessVars, json_doc, analyzerVars>>

\* 483: the end of the finally block and of monitor()
SaveAnalysis ==
    /\ pc = "save_analysis"
    /\ analysis_file' = save_analysis(data_points)
    /\ analysis' = analyze_concurrent_performance(data_points)
    /\ pc' = "done"
    /\ UNCHANGED <<running, data_points, data_point, interval, duration,
                   start_time, mono, skew, hung, exc, csv_file, json_file,
                   history, degradedCount, harnessVars, json_doc, analyzerVars>>

\* 22-33 and 496-498: the state after ConcurrentStreamMonitor(...)
Init ==
    /\ pc = "constructed"
    /\ running = FALSE
    /\ data_points = <<>>
    /\ data_point = NoSample
    /\ interval \in Intervals
    /\ duration \in Durations
    /\ start_time = 0
    /\ mono = 0
    /\ skew = 0
    /\ hung = FALSE
    /\ exc = "none"
    /\ csv_file = NoFile
    /\ json_file = NoFile
    /\ analysis_file = NoFile
    /\ ticksStarted = 0
    /\ lastSigPhase = "none"
    /\ ticksAtSig = 0
    /\ flushStarts = 0
    /\ starts = <<>>
    /\ works = <<>>
    /\ degradedCount = 0
    /\ ffmpeg_processes = <<>>
    /\ nvenc_util = NoLoad
    /\ json_doc = <<>>
    /\ analysis = NoAnalysis
    /\ AnalyzerIdle

Next ==
    \/ MonitorStart
    \/ LoopTest
    \/ CollectStart
    \/ GetGpuInfo
    \/ GetNvencEncoderStats
    \/ GetComputeProcesses
    \/ GetFfmpegProcesses
    \/ GetSystemInfo
    \/ GetHlsOutputStats
    \/ AppendSample
    \/ PrintRealtimeStatus
    \/ DurationCheck
    \/ Sleep
    \/ WallClockStepsBack
    \/ Finally
    \/ SaveDataCsv
    \/ SaveDataJson
    \/ SaveAnalysis
    \/ Signal

Spec == Init /\ [][Next]_vars

(***************************************************************************)
(* Attribution harness: detect_nvenc_utilization applied to every list of  *)
(* relevant processes with distinct pids, in every order.                  *)
(***************************************************************************)
\* get_ffmpeg_processes 128: the next enumeration of the process table
\* yields the same processes with two neighbours in the other order
ObserveProcesses ==
    /\ pc = "attr_done"
    /\ \E i \in 1..(Len(ffmpeg_processes) - 1) :
         ffmpeg_processes' =
             [ffmpeg_processes EXCEPT ![i] = ffmpeg_processes[i + 1],
                                      ![i + 1] = ffmpeg_processes[i]]
    /\ pc' = "attr_call"
    /\ UNCHANGED <<running, data_points, data_point, interval, duration,
                   start_time, mono, skew, hung, exc, csv_file, json_file,
                   analysis_file, history, degradedCount, nvenc_util, json_doc,
                   analysis, analyzerVars>>

\* collect_data 262: nvenc_util = self.detect_nvenc_utilization(ffmpeg_processes)
DetectNvencUtilization ==
    /\ pc = "attr_call"
    /\ nvenc_util' = detect_nvenc_utilization(ffmpeg_processes)
    /\ pc' = "attr_done"
    /\ UNCHANGED <<running, data_points, data_point, interval, duration,
                   start_time, mono, skew, hung, exc, csv_file, json_file,
                   analysis_file, history, degradedCount, ffmpeg_processes,
                   json_doc, analysis, analyzerVars>>

InitAttribution ==
    /\ pc = "attr_call"
    /\ ffmpeg_processes \in ProcLists
    /\ nvenc_util = NoLoad
    /\ running = FALSE
    /\ data_points = <<>>
    /\ data_point = NoSample
    /\ interval = 1
    /\ duration = 0
    /\ start_time = 0
    /\ mono = 0
    /\ skew = 0
    /\ hung = FALSE
    /\ exc = "none"
    /\ csv_file = NoFile
    /\ json_file = NoFile
    /\ analysis_file = NoFile
    /\ ticksStarted = 0
    /\ lastSigPhase = "none"
    /\ ticksAtSig = 0
    /\ flushStarts = 0
    /\ starts = <<>>
    /\ works = <<>>
    /\ degradedCount = 0
    /\ json_doc = <<>>
    /\ analysis = NoAnalysis
    /\ AnalyzerIdle

NextAttribution ==
    \/ DetectNvencUtilization
    \/ ObserveProcesses

SpecAttribution == InitAttribution /\ [][NextAttribution]_vars

(***************************************************************************)
(* The analyzer: generate_comprehensive_report, one action per call it     *)
(* makes.  The locals gpu_analysis, output_analysis and ffmpeg_analysis    *)
(* are kept in the fields of analysis_results they are compiled into; the  *)
(* dict has no keys until it is assigned.                                  *)
(***************************************************************************)
samplerVars == <<running, data_points, data_point, interval, duration,
                 start_time, mono, skew, hung, exc, csv_file, json_file,
                 analysis_file, history, degradedCount, harnessVars, json_doc,
                 analysis>>

inputVars == <<df, output_tree, nvenc_logs>>

\* 302-305
AnalyzeGpuPerformance ==
    /\ pc = "analyze_gpu"
    /\ analysis_results' =
           [analysis_results EXCEPT !.gpu_performance = analyze_gpu_performance(df)]
    /\ pc' = "analyze_output"
    /\ UNCHANGED <<samplerVars, inputVars, now, grade, reports>>

\* 308
AnalyzeOutputQuality ==
    /\ pc = "analyze_output"
    /\ analysis_results' =
           [analysis_results EXCEPT !.output_quality = analyze_output_quality(output_tree)]
    /\ pc' = "analyze_logs"
    /\ UNCHANGED <<samplerVars, inputVars, now, grade, reports>>

\* 311
AnalyzeFfmpegLogs ==
    /\ pc = "analyze_logs"
    /\ analysis_results' =
           [analysis_results EXCEPT !.ffmpeg_analysis = analyze_ffmpeg_logs(nvenc_logs)]
    /\ pc' = "compile"
    /\ UNCHANGED <<samplerVars, inputVars, now, grade, reports>>

\* 316-323: the six keys are set whatever the three analyses returned
CompileResults ==
    /\ pc = "compile"
    /\ analysis_results' =
           [analysis_results EXCEPT
               !.keys = {"test_timestamp", "log_files", "gpu_performance",
                         "output_quality", "ffmpeg_analysis", "plots_generated"},
               !.test_timestamp = now]
    /\ pc' = "print_grade"
    /\ UNCHANGED <<samplerVars, inputVars, now, grade, reports>>

\* 326 and 401: _print_analysis_summary ends with _print_performance_grade
PrintPerformanceGrade ==
    /\ pc = "print_grade"
    /\ grade' = print_performance_grade(analysis_results)
    /\ pc' = "save_report"
    /\ UNCHANGED <<samplerVars, inputVars, now, analysis_results, reports>>

\* 329-331: analysis_report_<now>.json receives the whole dict
SaveReport ==
    /\ pc = "save_report"
    /\ reports' = Append(reports, [name |-> now, content |-> analysis_results])
    /\ pc' = "report_saved"
    /\ UNCHANGED <<samplerVars, inputVars, now, analysis_results, grade>>

\* main() is run again later on the same logs_dir and output_dir
RunAgain ==
    /\ pc = "report_saved"
    /\ Len(reports) < MaxRuns
    /\ now' = now + 1
    /\ analysis_results' = NoResults
    /\ grade' = NoGrade
    /\ pc' = "analyze_gpu"
    /\ UNCHANGED <<samplerVars, inputVars, reports>>

\* the sampler is not part of the analysing process
SamplerIdle ==
    /\ running = FALSE
    /\ data_points = <<>>
    /\ data_point = NoSample
    /\ interval = 1
    /\ duration = 0
    /\ start_time = 0
    /\ mono = 0
    /\ skew = 0
    /\ hung = FALSE
    /\ exc = "none"
    /\ csv_file = NoFile
    /\ json_file = NoFile
    /\ analysis_file = NoFile
    /\ ticksStarted = 0
    /\ lastSigPhase = "none"
    /\ ticksAtSig = 0
    /\ flushStarts = 0
    /\ starts = <<>>
    /\ works = <<>>
    /\ degradedCount = 0
    /\ ffmpeg_processes = <<>>
    /\ nvenc_util = NoLoad
    /\ json_doc = <<>>
    /\ analysis = NoAnalysis

\* 482-498: ResultsAnalyzer(logs_dir, output_dir) constructed
AnalyzerStart ==
    /\ pc = "analyze_gpu"
    /\ SamplerIdle
    /\ now = 0
    /\ analysis_results = NoResults
    /\ grade = NoGrade
    /\ reports = <<>>

\* one run of generate_comprehensive_report
NextAnalyzer ==
    \/ AnalyzeGpuPerformance
    \/ AnalyzeOutputQuality
    \/ AnalyzeFfmpegLogs
    \/ CompileResults
    \/ PrintPerformanceGrade
    \/ SaveReport

(***************************************************************************)
(* Encoder logs: every token list up to MaxLogLen in which digit runs are  *)
(* maximal (two digit tokens are never adjacent).                          *)
(***************************************************************************)
Tokens == {TokDrop, TokSpace, TokText, TokDigits(3), TokDigits(7), TokDigits(11)}

LogContents ==
    {c \in UNION {[1..n -> Tokens] : n \in 0..MaxLogLen} :
        \A i \in 1..(Len(c) - 1) :
            ~(c[i].k = "digits" /\ c[i + 1].k = "digits")}

InitLog ==
    /\ AnalyzerStart
    /\ df = NoCsv
    /\ output_tree = NoOutputTree
    /\ \E content \in LogContents :
           nvenc_logs = [nvenc1 |-> [found |-> TRUE, content |-> content],
                         nvenc2 |-> NoLog]

SpecLog == InitLog /\ [][NextAnalyzer]_vars

(***************************************************************************)
(* Artifact trees: every list of up to MaxEntries entries for engine 1,    *)
(* next to an empty or a one-stream tree for engine 2.                     *)
(***************************************************************************)
Entry(kind, playlist, bytes, count) ==
    [kind |-> kind, playlist |-> playlist, bytes |-> bytes, count |-> count]

\* a playlist that is "ok" has a byte at least; a plain file has no playlist
Entries ==
    {Entry("stream_dir", "ok", 2, count) : count \in {1, 3}}
    \cup {Entry("stream_dir", playlist, bytes, count) :
            playlist \in {"empty", "missing"}, bytes \in {0, 2}, count \in {1, 3}}
    \cup {Entry("other_dir", "ok", 2, 1), Entry("file", "missing", 2, 1)}

EngineTrees == UNION {[1..n -> Entries] : n \in 0..MaxEntries}

InitOutput ==
    /\ AnalyzerStart
    /\ df = NoCsv
    /\ nvenc_logs = NoLogs
    /\ \E t1 \in EngineTrees, t2 \in {<<>>, <<Entry("stream_dir", "ok", 2, 1)>>} :
           output_tree = [nvenc1 |-> t1, nvenc2 |-> t2]

SpecOutput == InitOutput /\ [][NextAnalyzer]_vars

(***************************************************************************)
(* Whole reports: monitoring CSVs whose columns are missing, blank or hold *)
(* values on both sides of every scoring threshold, and artifact trees     *)
(* whose success rates do the same; the analyzer is run MaxRuns times.     *)
(***************************************************************************)
OneRow(values) == {Column(<<Reading(v)>>) : v \in values}

UtilizationColumns ==
    OneRow({0, 19, 20, 39, 40, 59, 60, 65, 79, 80, 100})
    \cup {NoColumn, Column(<<NotAvailable>>),
          Column(<<Reading(60), NotAvailable>>),
          Column(<<Reading(70), Reading(60)>>)}

StreamsColumns ==
    OneRow({0, 24, 25, 49, 50, 60, 74, 75, 99, 100, 120})
    \cup {NoColumn, Column(<<Reading(10), Reading(60), Reading(30)>>)}

TemperatureColumns ==
    OneRow({40, 75, 76, 78, 80, 81, 85, 86})
    \cup {NoColumn, Column(<<NotAvailable>>)}

MonitoringCsvs ==
    {NoCsv} \cup
    {[found |-> TRUE, gpu_utilization |-> u, temperature_c |-> t,
      total_concurrent_streams |-> m] :
        u \in UtilizationColumns, t \in TemperatureColumns, m \in StreamsColumns}

\* an engine's tree with s successful and f failed stream directories
TreeOf(s, f) ==
    (IF s > 0 THEN <<Entry("stream_dir", "ok", 2, s)>> ELSE <<>>)
    \o (IF f > 0 THEN <<Entry("stream_dir", "missing", 0, f)>> ELSE <<>>)

\* success rates 0/0, 50/50, 100/100, 66.7, 70, 80, 90, 92, 95 and 95/94
StreamCounts ==
    {<<0, 0, 0, 0>>, <<1, 1, 1, 1>>, <<1, 0, 1, 0>>, <<1, 0, 0, 0>>,
     <<2, 1, 2, 1>>, <<7, 3, 7, 3>>, <<4, 1, 4, 1>>, <<9, 1, 9, 1>>,
     <<23, 2, 23, 2>>, <<19, 1, 19, 1>>, <<19, 1, 47, 3>>}

OutputTrees ==
    {[nvenc1 |-> TreeOf(c[1], c[2]), nvenc2 |-> TreeOf(c[3], c[4])] :
        c \in StreamCounts}

InitReport ==
    /\ AnalyzerStart
    /\ nvenc_logs = NoLogs
    /\ df \in MonitoringCsvs
    /\ output_tree \in OutputTrees

NextReport ==
    \/ AnalyzeGpuPerformance
    \/ AnalyzeOutputQuality
    \/ AnalyzeFfmpegLogs
    \/ CompileResults
    \/ PrintPerformanceGrade
    \/ SaveReport
    \/ RunAgain

SpecReport == InitReport /\ [][NextReport]_vars

(***************************************************************************)
(* Claims                                                                  *)
(***************************************************************************)
RECURSIVE StreamsOver(_, _)
StreamsOver(ps, idx) ==
    IF idx = {} THEN 0
    ELSE LET i == CHOOSE j \in idx : TRUE
         IN ps[i].input_streams + StreamsOver(ps, idx \ {i})

\* the input-stream count of the process with exactly k smaller pids in ps,
\* 0 when ps has no such process
StreamsOfRank(ps, k) ==
    LET at == {i \in DOMAIN ps :
                 Cardinality({j \in DOMAIN ps : ps[j].pid < ps[i].pid}) = k}
    IN IF at = {} THEN 0 ELSE ps[CHOOSE i \in at : TRUE].input_streams

\* C1: for every process list (any length, any order) the attribution total
\* equals the sum of input_streams over all processes of the list.
C1_TotalIsSumOfAll ==
    pc = "attr_done" =>
        nvenc_util.total_concurrent_streams
            = StreamsOver(ffmpeg_processes, DOMAIN ffmpeg_processes)

C1_Witness ==
    /\ pc = "attr_done"
    /\ Len(ffmpeg_processes) = 3
    /\ ffmpeg_processes[3].input_streams > 0
    /\ nvenc_util.total_concurrent_streams
         > nvenc_util.nvenc1_estimated_load + nvenc_util.nvenc2_estimated_load

\* C2: for every list with distinct pids, in every order, engine 1 gets the
\* count of the lowest-pid process and engine 2 that of the second-lowest
\* (0 when there is none); further processes change neither engine.
C2_EnginesByPidRank ==
    pc = "attr_done" =>
        /\ nvenc_util.nvenc1_estimated_load = StreamsOfRank(ffmpeg_processes, 0)
        /\ nvenc_util.nvenc2_estimated_load = StreamsOfRank(ffmpeg_processes, 1)

C2_Witness ==
    /\ pc = "attr_done"
    /\ Len(ffmpeg_processes) = 3
    /\ ffmpeg_processes[1].pid > ffmpeg_processes[2].pid
    /\ ffmpeg_processes[2].pid > ffmpeg_processes[3].pid
    /\ nvenc_util.nvenc1_estimated_load = ffmpeg_processes[3].input_streams
    /\ nvenc_util.nvenc1_estimated_load # ffmpeg_processes[1].input_streams
    /\ nvenc_util.nvenc2_estimated_load # ffmpeg_processes[1].input_streams

\* C3: a stop signal delivered while a tick is in flight lets that tick finish
\* and its Sample be appended whole, no further tick starts and the loop test
\* leads to the flush; data_points never holds a Sample missing a sub-step.
C3_MidTickStop ==
    /\ \A i \in DOMAIN data_points : data_points[i].steps = SubSteps
    /\ lastSigPhase \in {"tick", "sleep", "flush"} => ticksStarted = ticksAtSig
    /\ lastSigPhase = "tick" =>
         /\ ~running
         /\ pc \in TickPcs \ {"print", "durcheck"} =>
              Len(data_points) = ticksStarted - 1
         /\ pc \notin TickPcs \ {"print", "durcheck"} =>
              Len(data_points) = ticksStarted

C3_Witness ==
    /\ lastSigPhase = "tick"
    /\ ticksAtSig = 2
    /\ pc = "save_csv"
    /\ exc = "none"
    /\ duration = 0
    /\ Len(data_points) = 2

\* C4: a stop signal delivered at any moment after construction, also before
\* monitor() sets running to True, is followed by no new tick.
C4_StopWithinOneTick ==
    lastSigPhase # "none" => ticksStarted = ticksAtSig

\* C5: the flush sequence is started exactly once in an execution of
\* monitor() that ends, at most once in any, and once it has started the main
\* thread never goes back to the collection loop.
C5_FlushOnce ==
    /\ flushStarts <= 1
    /\ pc \in {"save_csv", "save_json", "save_analysis", "done"} <=> flushStarts = 1
    /\ flushStarts = 0 => csv_file = NoFile /\ json_file = NoFile /\ analysis_file = NoFile

C5_Witness ==
    /\ pc = "done"
    /\ flushStarts = 1
    /\ lastSigPhase = "flush"
    /\ exc = "sleep"
    /\ Len(data_points) = 1

\* C6: when monitor() has ended, the CSV, the JSON and the analysis report
\* are all persisted and each covers exactly the Samples of data_points.
C6_AllPersisted ==
    pc = "done" =>
        /\ csv_file = [state |-> "complete", rows |-> Len(data_points)]
        /\ json_file = [state |-> "complete", rows |-> Len(data_points)]
        /\ analysis_file = [state |-> "complete", rows |-> Len(data_points)]

Nominal(s, step) ==
    CASE step = "gpu" -> s.gpu = "val"
      [] step = "enc" -> s.enc = "val"
      [] step = "compute" -> s.compute_processes = "list"
      [] step = "ffmpeg" -> s.ffmpeg_processes \in ProcObservations
      [] step = "system" -> s.system = "val"
      [] step = "hls" -> s.hls = "full"

DegradedField(s, step) ==
    CASE step = "gpu" -> s.gpu = "absent"
      [] step = "enc" -> s.enc = "zero"
      [] step = "compute" -> s.compute_processes = "empty"
      [] step = "ffmpeg" -> s.ffmpeg_processes = <<>> /\ s.nvenc = NoLoad
      [] step = "system" -> s.system = "absent"
      [] step = "hls" -> s.hls \in {"noavg", "zero"}

MainThreadStep ==
    \/ MonitorStart \/ LoopTest \/ CollectStart \/ GetGpuInfo
    \/ GetNvencEncoderStats \/ GetComputeProcesses \/ GetFfmpegProcesses
    \/ GetSystemInfo \/ GetHlsOutputStats \/ AppendSample
    \/ PrintRealtimeStatus \/ DurationCheck \/ Sleep \/ Finally
    \/ SaveDataCsv \/ SaveDataJson \/ SaveAnalysis

\* C8: every external query has a bounded wait: when a query never returns,
\* the main thread can still take a step (the query is given up as failed).
C8_QueriesBounded ==
    hung => ENABLED MainThreadStep

\* C9: the next tick starts max(interval, work) after the previous tick's
\* start: the loop sleeps only the residual max(0, interval - work).
C9_ResidualSleep ==
    \A i \in 1..(Len(starts) - 1) :
        starts[i + 1] - starts[i] = Max(interval, works[i])

\* C10: the Samples of data_points are strictly time-ordered by the wall-clock
\* reading taken at the start of collect_data.
C10_TimestampsIncrease ==
    \A i \in 1..(Len(data_points) - 1) :
        data_points[i].unix_timestamp < data_points[i + 1].unix_timestamp

\* the input families of the grade that the analyzer had: a column of the
\* monitoring CSV, or the output tree (which is always read)
Available(column) == df.found /\ df[column].present

GradePrinted == pc \in {"save_report", "report_saved"}

IsInt(x) == ~x.nan /\ x.den > 0 /\ x.num % x.den = 0
IntOf(x) == x.num \div x.den

Band25(u) ==
    IF u >= 80 THEN 25 ELSE IF u >= 60 THEN 20 ELSE IF u >= 40 THEN 15
    ELSE IF u >= 20 THEN 10 ELSE 0

Band35(s) ==
    IF s >= 95 THEN 35 ELSE IF s >= 90 THEN 30 ELSE IF s >= 80 THEN 25
    ELSE IF s >= 70 THEN 20 ELSE 0

Band25Streams(m) ==
    IF m >= 100 THEN 25 ELSE IF m >= 75 THEN 20 ELSE IF m >= 50 THEN 15
    ELSE IF m >= 25 THEN 10 ELSE 0

Band15Temp(t) ==
    IF t <= 75 THEN 15 ELSE IF t <= 80 THEN 12 ELSE IF t <= 85 THEN 8 ELSE 0

LetterBand(p) ==
    IF p >= 90 THEN "A+ (Excellent)" ELSE IF p >= 80 THEN "A (Very Good)"
    ELSE IF p >= 70 THEN "B+ (Good)" ELSE IF p >= 60 THEN "B (Fair)"
    ELSE IF p >= 50 THEN "C (Needs Improvement)" ELSE "D (Poor)"

\* the four inputs of the grade as the compiled results hold them
InputU == analysis_results.gpu_performance.gpu_utilization.avg
InputS == mean_of_two(analysis_results.output_quality.nvenc1.success_rate,
                      analysis_results.output_quality.nvenc2.success_rate)
InputM == analysis_results.gpu_performance.concurrent_streams.max_total
InputT == analysis_results.gpu_performance.thermal.max_temp

\* C11: a sub-score adds its cap to max_score only when its input family was
\* available: with the monitoring CSV missing or unreadable, or without the
\* utilization, stream or temperature column, the sub-score's cap is not in
\* max_score and nothing of it is in score.
C11_MaxCountsAvailableOnly ==
    GradePrinted =>
        /\ grade.max_score = 35
               + (IF Available("gpu_utilization") THEN 25 ELSE 0)
               + (IF Available("total_concurrent_streams") THEN 25 ELSE 0)
               + (IF Available("temperature_c") THEN 15 ELSE 0)
        /\ grade.score =
               success_points(InputS)
               + (IF Available("gpu_utilization")
                  THEN utilization_points(InputU) ELSE 0)
               + (IF Available("total_concurrent_streams")
                  THEN streams_points(InputM) ELSE 0)
               + (IF Available("temperature_c")
                  THEN thermal_points(InputT) ELSE 0)

\* C12: with all four families available and integer inputs (u, s, m, t) the
\* score is band25(u) + band35(s) + band25streams(m) + band15temp(t) out of
\* 100, and the letter is the band of that percentage.
C12_ScoreIsSumOfBands ==
    (/\ GradePrinted
     /\ Available("gpu_utilization")
     /\ Available("total_concurrent_streams")
     /\ Available("temperature_c")
     /\ IsInt(InputU) /\ IsInt(InputS) /\ IsInt(InputM) /\ IsInt(InputT))
    => /\ grade.printed
       /\ grade.max_score = 100
       /\ grade.score = Band25(IntOf(InputU)) + Band35(IntOf(InputS))
                        + Band25Streams(IntOf(InputM)) + Band15Temp(IntOf(InputT))
       /\ grade.grade = LetterBand(grade.score)

C12_Witness ==
    /\ GradePrinted
    /\ Available("gpu_utilization")
    /\ Available("total_concurrent_streams")
    /\ Available("temperature_c")
    /\ IsInt(InputU) /\ IntOf(InputU) = 65
    /\ IsInt(InputS) /\ IntOf(InputS) = 92
    /\ IsInt(InputM) /\ IntOf(InputM) = 60
    /\ IsInt(InputT) /\ IntOf(InputT) = 78
    /\ grade.score = 77
    /\ grade.max_score = 100
    /\ grade.grade = "B+ (Good)"

\* C13: two runs of the analyzer on the same CSV, output tree and logs at two
\* wall-clock times write reports of identical content.
C13_ReportsIdentical ==
    \A i, j \in DOMAIN reports : reports[i].content = reports[j].content

\* the stream directories of an engine's tree, by playlist state
RECURSIVE StreamDirs(_, _)
StreamDirs(entries, ok) ==
    IF entries = <<>> THEN 0
    ELSE (IF entries[1].kind = "stream_dir" /\ ((entries[1].playlist = "ok") <=> ok)
          THEN entries[1].count ELSE 0)
         + StreamDirs(Tail(entries), ok)

\* C14: for each engine, successful_streams is the number S of stream
\* directories with a non-empty playlist, failed_streams the number F of the
\* other stream directories, and success_rate is S / (S + F) * 100 when
\* S + F > 0 and exactly 0 when S + F = 0.
C14_SuccessRate ==
    \A engine \in {"nvenc1", "nvenc2"} :
        LET result == analysis_results.output_quality[engine]
            S == StreamDirs(output_tree[engine], TRUE)
            F == StreamDirs(output_tree[engine], FALSE)
        IN pc \notin {"analyze_gpu", "analyze_output"} =>
              /\ result.successful_streams = S
              /\ result.failed_streams = F
              /\ ~result.success_rate.nan
              /\ result.success_rate.den > 0
              /\ IF S + F > 0
                 THEN result.success_rate.num * (S + F)
                          = 100 * S * result.success_rate.den
                 ELSE result.success_rate.num = 0

C14_Witness ==
    /\ pc = "report_saved"
    /\ analysis_results.output_quality.nvenc1.successful_streams = 3
    /\ analysis_results.output_quality.nvenc1.failed_streams = 1
    /\ analysis_results.output_quality.nvenc1.success_rate = Frac(300, 4)
    /\ output_tree.nvenc2 = <<>>
    /\ analysis_results.output_quality.nvenc2.success_rate = Num(0)

\* the bytes of all files under an engine's tree
RECURSIVE TreeBytes(_)
TreeBytes(entries) ==
    IF entries = <<>> THEN 0
    ELSE entries[1].bytes * entries[1].count + TreeBytes(Tail(entries))

\* C15: the size reported for an engine is the sum of the sizes of all files
\* under the engine's artifact tree, the files of failed stream directories
\* included.
C15_SizeCoversWholeTree ==
    \A engine \in {"nvenc1", "nvenc2"} :
        pc \notin {"analyze_gpu", "analyze_output"} =>
            analysis_results.output_quality[engine].total_size_mb
                = TreeBytes(output_tree[engine])

\* the integers that follow a drop= in content, with nothing but whitespace
\* in between
DropValues(content) ==
    {content[j].v : j \in {j \in DOMAIN content :
        /\ content[j].k = "digits"
        /\ \E i \in 1..(j - 1) :
               /\ content[i].k = "drop="
               /\ \A k \in (i + 1)..(j - 1) : content[k].k = "space"}}

\* C16: the dropped_frames value of an analysed log is the largest of the
\* drop=<integer> values in the log, and 0 when the log has none.
C16_DroppedFramesIsMax ==
    \A engine \in {"nvenc1", "nvenc2"} :
        LET result == analysis_results.ffmpeg_analysis[engine]
            values == DropValues(nvenc_logs[engine].content)
        IN "dropped_frames" \in result.keys =>
              IF values = {} THEN result.dropped_frames = 0
              ELSE /\ result.dropped_frames \in values
                   /\ \A v \in values : v <= result.dropped_frames

C16_Witness ==
    /\ pc = "report_saved"
    /\ nvenc_logs.nvenc1.content =
           <<TokDrop, TokDigits(3), TokDrop, TokDigits(11), TokDrop, TokDigits(7)>>
    /\ analysis_results.ffmpeg_analysis.nvenc1.dropped_frames = 11

\* C17: every GPU counter a Sample holds is the number the driver reported or
\* is marked unavailable: a field the driver printed as [N/A] is not stored as
\* 0, and a failed encoder-stats query does not leave the all-zero dict.
C17_UnavailableNotZero ==
    \A i \in DOMAIN data_points :
        LET s == data_points[i]
        IN /\ s.gpu # "absent" =>
                /\ s.reported.gpu_utilization.na => s.gpu_utilization # 0
                /\ s.reported.temperature_c.na => s.temperature_c # 0
           /\ "enc" \in s.faults => s.enc # "zero"

\* the Samples of points in which the driver gave a GPU utilization
CollectedUtilization(points) ==
    {i \in DOMAIN points :
        points[i].gpu # "absent" /\ ~points[i].reported.gpu_utilization.na}

RECURSIVE SumUtilization(_, _)
SumUtilization(points, S) ==
    IF S = {} THEN 0
    ELSE LET i == CHOOSE j \in S : TRUE
         IN points[i].reported.gpu_utilization.v + SumUtilization(points, S \ {i})

\* C18: the GPU-utilization aggregate of the sampler's analysis is taken over
\* exactly the Samples in which the utilization was collected, and is left
\* out of the analysis when no Sample has it.
C18_AggregatesOnlyCollected ==
    analysis.keys # {} =>
        LET collected == CollectedUtilization(data_points)
        IN IF collected = {}
           THEN "gpu_utilization" \notin analysis.keys
           ELSE /\ analysis.gpu_utilization.len = Cardinality(collected)
                /\ analysis.gpu_utilization.sum = SumUtilization(data_points, collected)

\* C19: in the JSON file every Sample's timestamp is the ISO-8601 text of the
\* wall-clock instant at which its tick started, whether or not the hardware
\* query of that tick succeeded.
C19_JsonTimestampIsTickStart ==
    \A i \in DOMAIN json_doc :
        json_doc[i].timestamp = [fmt |-> "iso", at |-> json_doc[i].unix_timestamp]

\* C20: data_points is append-only with the loop as its single writer: the
\* step from the append to the status print adds the tick's Sample at the end
\* and leaves the earlier Samples as they are; every other step (signal
\* handler, status print, the save and analysis steps) leaves the buffer
\* unchanged.
C20_AppendOnly ==
    [][IF pc = "append" /\ pc' = "print"
       THEN data_points' = Append(data_points, data_point)
       ELSE data_points' = data_points]_vars

C20_Witness ==
    /\ pc = "done"
    /\ Len(data_points) = 2
    /\ lastSigPhase = "flush"
    /\ json_doc # <<>>
    /\ analysis.keys # {}

\* C21: no sub-step of collect_data overwrites a field an earlier sub-step of
\* the same tick wrote: in every Sample whose GPU query succeeded,
\* memory_percent is the value get_gpu_info computed from the GPU's memory.
C21_MemoryPercentIsGpu ==
    \A i \in DOMAIN data_points :
        data_points[i].gpu # "absent" => data_points[i].memory_percent = "gpu"

\* the wall-clock reading at which tick i returned from collect_data
TickFinish(i) == data_points[i].unix_timestamp + works[i]

Expired(i) == TickFinish(i) - start_time >= duration

\* the main thread has left the while loop
LoopEnded == pc \in FlushPcs \cup {"done"}

\* what C22 says of a loop that has ended, or sleeps, in a run for which
\* premise holds
DurationRule(premise) ==
    /\ (duration > 0 /\ lastSigPhase = "none" /\ premise /\ LoopEnded) =>
           /\ Len(data_points) >= 1
           /\ Expired(Len(data_points))
           /\ \A i \in 1..(Len(data_points) - 1) : ~Expired(i)
    /\ (duration > 0 /\ pc = "sleep") => ~Expired(Len(data_points))
    /\ (duration = 0 /\ premise /\ LoopEnded) => ~running

====
